---- MODULE Spec2Model ----
(***************************************************************************)
(* reprounzip/unpackers/default.py, create_chroot: reconstruction of a     *)
(* chroot directory from a pack.                                           *)
(*                                                                         *)
(* Strings are sequences of one-character strings, so that the Python      *)
(* string operations of the source (slicing, startswith, "in", the ldd     *)
(* regular expression) are computed character by character.  The whole     *)
(* filesystem (host files, target directory, root) is one map from         *)
(* canonical absolute path to node.                                        *)
(***************************************************************************)
EXTENDS Naturals, Integers, Sequences, FiniteSets, TLC

(* ------------------------------ bounds --------------------------------- *)
MaxMembers == 2
MaxPkgs == 2
MaxRuns == 2
MaxLddLines == 2
MaxWdirs == 2

(* --------------------------- string helpers ---------------------------- *)
\* s[n:]
Drop(s, n) == SubSeq(s, n + 1, Len(s))

\* s.startswith(pre)
StartsWith(s, pre) == Len(s) >= Len(pre) /\ SubSeq(s, 1, Len(pre)) = pre

\* sub in s
Contains(s, sub) ==
    \E i \in 1..(Len(s) + 1 - Len(sub)) : SubSeq(s, i, i + Len(sub) - 1) = sub

\* s.split(sep) for a one-character separator
RECURSIVE SplitOn(_, _)
SplitOn(s, sep) ==
    IF \A i \in 1..Len(s) : s[i] # sep
    THEN <<s>>
    ELSE LET i == CHOOSE k \in 1..Len(s) :
                     s[k] = sep /\ \A j \in 1..(k - 1) : s[j] # sep
         IN <<SubSeq(s, 1, i - 1)>> \o SplitOn(Drop(s, i), sep)

\* index just after the last '/' of s (0 when there is none): s.rfind('/') + 1
AfterLastSlash(s) ==
    IF \A i \in 1..Len(s) : s[i] # "/"
    THEN 0
    ELSE CHOOSE k \in 1..Len(s) :
             s[k] = "/" /\ \A j \in (k + 1)..Len(s) : s[j] # "/"

\* s.rstrip('/')
RECURSIVE RStripSlash(_)
RStripSlash(s) ==
    IF s # <<>> /\ s[Len(s)] = "/" THEN RStripSlash(SubSeq(s, 1, Len(s) - 1)) ELSE s

\* os.path.dirname
Dirname(s) ==
    LET head == SubSeq(s, 1, AfterLastSlash(s))
    IN IF head # <<>> /\ (\E i \in 1..Len(head) : head[i] # "/")
       THEN RStripSlash(head)
       ELSE head

\* os.path.basename
Basename(s) == Drop(s, AfterLastSlash(s))

\* os.path.join(a, b)
Join(a, b) ==
    IF b # <<>> /\ b[1] = "/" THEN b
    ELSE IF a = <<>> \/ a[Len(a)] = "/" THEN a \o b
    ELSE a \o <<"/">> \o b

\* The components of a path after "", "." and ".." are resolved, as the
\* kernel resolves them from the current directory "/".
RECURSIVE NormComps(_, _)
NormComps(comps, stack) ==
    IF comps = <<>> THEN stack
    ELSE LET c == Head(comps)
         IN IF c = <<>> \/ c = <<".">> THEN NormComps(Tail(comps), stack)
            ELSE IF c = <<".", ".">>
            THEN NormComps(Tail(comps),
                           IF stack = <<>> THEN stack
                           ELSE SubSeq(stack, 1, Len(stack) - 1))
            ELSE NormComps(Tail(comps), Append(stack, c))

RECURSIVE Unsplit(_)
Unsplit(comps) ==
    IF comps = <<>> THEN <<>> ELSE <<"/">> \o Head(comps) \o Unsplit(Tail(comps))

\* canonical absolute path named by the string s
Norm(s) ==
    LET stack == NormComps(SplitOn(s, "/"), <<>>)
    IN IF stack = <<>> THEN <<"/">> ELSE Unsplit(stack)

\* canonical path p is q or lies below q
Under(p, q) == p = q \/ StartsWith(p, q \o <<"/">>)

(* ----------------------------- filesystem ------------------------------ *)
Absent == [k |-> "none", v |-> <<>>]
DirNode == [k |-> "dir", v |-> <<>>]
FileNode(content) == [k |-> "file", v |-> content]
LinkNode(tgt) == [k |-> "link", v |-> tgt]

Node(f, p) == IF p \in DOMAIN f THEN f[p] ELSE Absent

Put(f, p, n) == [q \in DOMAIN f \cup {p} |-> IF q = p THEN n ELSE f[q]]

\* follow the symbolic links at the end of canonical path p
RECURSIVE Follow(_, _, _)
Follow(f, p, seen) ==
    IF Node(f, p).k = "link" /\ p \notin seen
    THEN Follow(f, Norm(Join(Dirname(p), Node(f, p).v)), seen \cup {p})
    ELSE p

Real(f, s) == Follow(f, Norm(s), {})

\* os.path.exists (follows links; a dangling link does not exist)
Exists(f, s) == s # <<>> /\ Node(f, Real(f, s)).k \in {"file", "dir"}

\* os.path.islink
IsLink(f, s) == s # <<>> /\ Node(f, Norm(s)).k = "link"

IsDir(f, s) == s # <<>> /\ Node(f, Real(f, s)).k = "dir"

ParentIsDir(f, p) == Node(f, Dirname(p)).k = "dir"

\* os.mkdir: raises OSError when the path exists or its parent is no directory
OsMkdir(f, s) ==
    LET p == Norm(s)
    IN IF s = <<>> \/ Node(f, p).k # "none" \/ ~ParentIsDir(f, p)
       THEN [fs |-> f, err |-> TRUE]
       ELSE [fs |-> Put(f, p, DirNode), err |-> FALSE]

\* os.symlink(tgt, s): raises OSError when the path exists
OsSymlink(f, tgt, s) ==
    LET p == Norm(s)
    IN IF s = <<>> \/ Node(f, p).k # "none" \/ ~ParentIsDir(f, p)
       THEN [fs |-> f, err |-> TRUE]
       ELSE [fs |-> Put(f, p, LinkNode(tgt)), err |-> FALSE]

\* open(s, 'w') and write content: follows links, creates or truncates
WriteFile(f, s, content) ==
    LET p == Real(f, s)
    IN IF s = <<>> \/ Node(f, p).k \in {"dir", "link"} \/ ~ParentIsDir(f, p)
       THEN [fs |-> f, err |-> TRUE]
       ELSE [fs |-> Put(f, p, FileNode(content)), err |-> FALSE]

\* shutil.copy(src, dst): raises when src is no readable file, when dst is
\* the same file, or when dst cannot be opened for writing
ShutilCopy(f, src, dst) ==
    LET sp == Real(f, src)
        d == IF IsDir(f, dst) THEN Join(dst, Basename(src)) ELSE dst
    IN IF src = <<>> \/ Node(f, sp).k # "file" \/ Real(f, d) = sp
       THEN [fs |-> f, err |-> TRUE]
       ELSE WriteFile(f, d, Node(f, sp).v)

\* makedir (lines 18-24)
RECURSIVE makedir(_, _)
makedir(f, path) ==
    IF ~Exists(f, path)
    THEN LET f1 == makedir(f, Dirname(path))
         IN OsMkdir(f1, path).fs
    ELSE f

\* os.makedirs, as tarfile calls it for the missing parents of a member
RECURSIVE OsMakedirs(_, _)
OsMakedirs(f, s) ==
    LET up == Dirname(s)
        r1 == IF up # <<>> /\ up # s /\ ~Exists(f, up)
              THEN OsMakedirs(f, up)
              ELSE [fs |-> f, err |-> FALSE]
    IN IF r1.err THEN r1 ELSE OsMkdir(r1.fs, s)

(* ------------------------- names of the program ------------------------ *)
TargetDir == <<"/", "t">>
RootName == <<"r", "o", "o", "t">>
ScriptName == <<"s", "c", "r", "i", "p", "t", ".", "s", "h">>
DataPrefix == <<"D", "A", "T", "A", "/">>
TraceMember == <<"M", "E", "T", "A", "D", "A", "T", "A", "/", "t", "r", "a", "c", "e",
                 ".", "s", "q", "l", "i", "t", "e", "3">>
BinDir == <<"b", "i", "n">>
BinSh == <<"b", "i", "n", "/", "s", "h">>
HostSh == <<"/", "b", "i", "n", "/", "s", "h">>
DotDot == <<".", ".">>

\* root = os.path.abspath(os.path.join(target, 'root'))
Root == Norm(Join(TargetDir, RootName))
ScriptPath == Join(TargetDir, ScriptName)

(* ------------------------------- inputs -------------------------------- *)
\* the host: /h a regular file, /l a symbolic link to it, /m missing,
\* the interpreter /bin/sh and its shared object /lib/c
HostFs ==
    ( <<"/">> :> DirNode ) @@
    ( <<"/", "h">> :> FileNode(<<"h">>) ) @@
    ( <<"/", "l">> :> LinkNode(<<"/", "h">>) ) @@
    ( <<"/", "b", "i", "n">> :> DirNode ) @@
    ( HostSh :> FileNode(<<"s">>) ) @@
    ( <<"/", "l", "i", "b">> :> DirNode ) @@
    ( <<"/", "l", "i", "b", "/", "c">> :> FileNode(<<"c">>) )

\* what may be at the target path before the call
TargetStates == {Absent, DirNode, FileNode(<<"x">>), LinkNode(<<"/", "m">>)}

\* names of archive members (regular files)
MemberNames ==
    { DataPrefix \o <<"a">>,
      DataPrefix \o <<"a", "/", "b">>,
      DataPrefix \o <<".", ".", "/", "e">>,
      DataPrefix \o <<"/", "e">>,
      TraceMember }

SeqsUpTo(S, n) == UNION {[1..k -> S] : k \in 0..n}

Packs == SeqsUpTo(MemberNames, MaxMembers)

\* paths of the files of packages
HostPaths == {<<"/", "h">>, <<"/", "l">>, <<"/", "m">>}
FileLists == {<<a>> : a \in HostPaths} \cup {<<a, b>> : a, b \in HostPaths}
Packages == [name : {<<"p">>}, packfiles : BOOLEAN, files : FileLists]

\* lines the dependency-listing subprocess may print
LddOutput ==
    { <<"\t", "/", "l", "i", "b", "/", "c", " ", "(", "0", "x", "1", ")", "\n">>,
      <<"\t", "c", " ", "=", ">", " ", "/", "l", "i", "b", "/", "c", " ",
        "(", "0", "x", "1", ")", "\n">>,
      <<"\t", "v", " ", "(", "0", "x", "1", ")", "\n">>,
      <<"\t", "v", " ", "=", ">", " ", " ", "(", "0", "x", "1", ")", "\n">> }

\* names recorded as working directories in the trace database
WdirNames ==
    { <<"/", "a">>, <<"/", "a", "/", "b">>, <<"/", "w">>, <<"/", ".", ".", "/", "e">> }
WdirSets == {S \in SUBSET WdirNames : Cardinality(S) <= MaxWdirs}

\* recorded runs; uid and gid are optional keys
RunKinds ==
    { [binary |-> <<"/", "b">>, argv |-> <<<<"x">>, <<"-", "f">>>>,
       workingdir |-> <<"/", "w">>, uid |-> 0],
      [binary |-> <<"/", "b">>, argv |-> <<<<"/", "b">>>>,
       workingdir |-> <<"/", "a">>, gid |-> 5] }
RunLists == SeqsUpTo(RunKinds, MaxRuns)

(* ------------------------- pure parts of the code ---------------------- *)
Range(q) == {q[i] : i \in 1..Len(q)}

\* the character class [x0-9a-z] of the pattern
AddrChars ==
    {"x", "0", "1", "2", "3", "4", "5", "6", "7", "8", "9",
     "a", "b", "c", "d", "e", "f", "g", "h", "i", "j", "k", "l", "m",
     "n", "o", "p", "q", "r", "s", "t", "u", "v", "w", "y", "z"}

\* \([x0-9a-z]+\)
IsAddr(w) ==
    /\ Len(w) >= 3
    /\ w[1] = "(" /\ w[Len(w)] = ")"
    /\ \A i \in 2..(Len(w) - 1) : w[i] \in AddrChars

NoMatch == <<>>

\* fmt.match(l) and m.group(1) (lines 132, 137-138); NoMatch when the
\* pattern ^\t(?:[^ ]+ => )?([^ ]+) \([x0-9a-z]+\)$ does not match.
\* [^ ]+ holds no space and every separator of the pattern is one space, so
\* the line matches exactly when its space-separated fields have one of
\* the two shapes below.
FmtMatch(l) ==
    LET body == IF l # <<>> /\ l[Len(l)] = "\n" THEN SubSeq(l, 1, Len(l) - 1) ELSE l
        w == IF body = <<>> THEN <<>> ELSE SplitOn(Drop(body, 1), " ")
    IN IF body = <<>> \/ body[1] # "\t" THEN NoMatch
       ELSE IF Len(w) = 2 /\ w[1] # <<>> /\ IsAddr(w[2]) THEN w[1]
       ELSE IF Len(w) = 4 /\ w[1] # <<>> /\ w[2] = <<"=", ">">> /\ w[3] # <<>>
               /\ IsAddr(w[4]) THEN w[3]
       ELSE NoMatch

\* find_all_links: the path, and while it is a symbolic link, its target
RECURSIVE FindAllLinksFrom(_, _, _)
FindAllLinksFrom(f, path, seen) ==
    IF IsLink(f, path) /\ path \notin seen
    THEN <<path>> \o FindAllLinksFrom(f, Join(Dirname(path), Node(f, Norm(path)).v),
                                      seen \cup {path})
    ELSE <<path>>

find_all_links(f, path) == FindAllLinksFrom(f, path, {})

\* dest = f without its first '/', joined to root (lines 110-113, 141-144)
DestOf(path) == Join(Root, IF path # <<>> /\ path[1] = "/" THEN Drop(path, 1) ELSE path)

\* one iteration of the host copy loop (lines 105-118)
CopyHostFile(f, path) ==
    LET dest == DestOf(path)
        f1 == makedir(f, Dirname(dest))
        r == IF IsLink(f1, path)
             THEN OsSymlink(f1, Node(f1, Norm(path)).v, dest)
             ELSE ShutilCopy(f1, path, dest)
    IN [fs |-> r.fs, err |-> r.err, warn |-> ~Exists(f, path)]

\* any('..' in m.name for m in tar.getmembers()) (line 122)
HasInvalidPathnames(members) == \E i \in 1..Len(members) : Contains(members[i], DotDot)

\* [m for m in members if m.name.startswith('DATA/')], m.name = m.name[5:]
\* (lines 125-127)
RECURSIVE DataMembers(_)
DataMembers(members) ==
    IF members = <<>> THEN <<>>
    ELSE (IF StartsWith(Head(members), DataPrefix)
          THEN <<Drop(Head(members), 5)>> ELSE <<>>) \o DataMembers(Tail(members))

\* tarfile extraction of one regular file below path
TarExtract(f, path, name) ==
    LET targetpath == Join(path, name)
        upperdirs == Dirname(targetpath)
        r1 == IF upperdirs # <<>> /\ ~Exists(f, upperdirs)
              THEN OsMakedirs(f, upperdirs)
              ELSE [fs |-> f, err |-> FALSE]
    IN IF r1.err THEN r1 ELSE WriteFile(r1.fs, targetpath, <<"p">>)

\* tar.extractall(root, members) (line 128): stops at the first error
RECURSIVE ExtractAll(_, _, _)
ExtractAll(f, names, done) ==
    IF names = <<>> THEN [fs |-> f, out |-> "ok", done |-> done]
    ELSE LET r == TarExtract(f, Root, Head(names))
         IN IF r.err THEN [fs |-> r.fs, out |-> "exception", done |-> done]
            ELSE ExtractAll(r.fs, Tail(names), Append(done, Head(names)))

\* a plausible slip: the names are checked after the members were extracted
UnpackCheckedLate(f, members) ==
    LET r == ExtractAll(f, DataMembers(members), <<>>)
    IN IF HasInvalidPathnames(members)
       THEN [fs |-> r.fs, out |-> "unsafe_archive", done |-> r.done]
       ELSE r

\* lines 121-129
Unpack(f, members) ==
    IF HasInvalidPathnames(members)
    THEN [fs |-> f, out |-> "unsafe_archive", done |-> <<>>]
    ELSE ExtractAll(f, DataMembers(members), <<>>)

\* the body of the loop over the lines of ldd (lines 136-147)
CopyDependency(f, l) ==
    LET g == FmtMatch(l)
        dest == DestOf(g)
        f1 == makedir(f, Dirname(dest))
    IN IF g = NoMatch THEN [fs |-> f, err |-> TRUE]
       ELSE IF ~Exists(f, g) THEN [fs |-> f, err |-> FALSE]
       ELSE IF ~Exists(f1, dest) THEN ShutilCopy(f1, g, dest)
       ELSE [fs |-> f1, err |-> FALSE]

\* lines 151-154
CopyShell(f) ==
    LET f1 == makedir(f, Join(Root, BinDir))
        dest == Join(Root, BinSh)
    IN IF ~Exists(f1, dest) THEN ShutilCopy(f1, HostSh, dest)
       ELSE [fs |-> f1, err |-> FALSE]

\* makedir(os.path.join(root, directory[1:])) (line 160)
MakeWorkingDir(f, directory) == makedir(f, Join(Root, Drop(directory, 1)))

DefaultUid == 1000
DefaultGid == 1000

\* run.get(key, default)
RunGet(run, key, default) == IF key \in DOMAIN run THEN run[key] ELSE default

\* shell_escape marks a word as one literal token of the shell text
shell_escape(s) == [esc |-> TRUE, s |-> s]
Word(s) == [esc |-> FALSE, s |-> s]

\* a plausible slip: the recorded argument vector is used whole
ScriptLineArgv(run) ==
    [userspec |-> <<RunGet(run, "uid", DefaultUid), RunGet(run, "gid", DefaultGid)>>,
     root |-> shell_escape(Root),
     cmd |-> <<Word(<<"c", "d">>), shell_escape(run.workingdir), Word(<<"&", "&">>)>>
             \o [i \in 1..Len(run.argv) |-> shell_escape(run.argv[i])]]

\* the line written for one run (lines 166-175): the words of cmd are
\* joined by spaces and cmd is the argument of /bin/sh -c
ScriptLine(run) ==
    LET args == <<run.binary>> \o Drop(run.argv, 1)
    IN [userspec |-> <<RunGet(run, "uid", DefaultUid), RunGet(run, "gid", DefaultGid)>>,
        root |-> shell_escape(Root),
        cmd |-> <<Word(<<"c", "d">>), shell_escape(run.workingdir), Word(<<"&", "&">>)>>
                \o [i \in 1..Len(args) |-> shell_escape(args[i])]]

\* the order of the blocks of create_chroot (lines 93, 120, 131, 156, 162)
OrderExtractFirst == <<"untar", "copy", "ldd", "wdirs", "script">>

Order == <<"copy", "untar", "ldd", "wdirs", "script">>

NextPc(b) ==
    LET i == CHOOSE k \in 1..Len(Order) : Order[k] = b
    IN IF i < Len(Order) THEN Order[i + 1] ELSE "done"

(* -------------------------------- state -------------------------------- *)
VARIABLES
    pc,         \* position in create_chroot
    fs,         \* the filesystem
    fs0,        \* the filesystem when create_chroot was called
    pack,       \* names of the members of the pack, in archive order
    outcome,    \* "running", "ok", "target_exists", "unsafe_archive", "exception"
    exc,        \* where an uncaught exception was raised, and on which path or line
    stages,     \* the blocks that have started work, in order
    pkgCount,   \* packages of the configuration seen so far
    files,      \* files of the current package still to be copied
    chain,      \* rest of the symlink chain of the current file
    warned,     \* paths reported missing on the host
    copied,     \* host paths the copier has put under the root
    fsCopied,   \* the filesystem when the host copier finished
    extracted,  \* member names extracted from the archive
    lddCount,   \* lines of ldd read so far
    wdirs,      \* result of list_directories
    wdirsTodo,  \* working directories still to be made
    runs,       \* the runs of the configuration
    script      \* the lines written to script.sh after its header

vars == <<pc, fs, fs0, pack, outcome, exc, stages, pkgCount, files, chain, warned,
          copied, fsCopied, extracted, lddCount, wdirs, wdirsTodo, runs, script>>

NoExc == [at |-> "", on |-> <<>>]

Enter(b) == IF b \in Range(stages) THEN stages ELSE Append(stages, b)

Init ==
    /\ pc = "check"
    /\ \E t \in TargetStates :
           fs = IF t = Absent THEN HostFs ELSE Put(HostFs, TargetDir, t)
    /\ fs0 = fs
    /\ pack \in Packs
    /\ outcome = "running"
    /\ exc = NoExc
    /\ stages = <<>>
    /\ pkgCount = 0
    /\ files = <<>>
    /\ chain = <<>>
    /\ warned = {}
    /\ copied = {}
    /\ fsCopied = fs
    /\ extracted = <<>>
    /\ lddCount = 0
    /\ wdirs = {}
    /\ wdirsTodo = {}
    /\ runs = <<>>
    /\ script = <<>>

\* sys.exit(1) after a message, or an uncaught exception
Exit(how, at, on) ==
    /\ pc' = "done"
    /\ outcome' = how
    /\ exc' = IF how = "exception" THEN [at |-> at, on |-> on] ELSE exc

Continue(next) == pc' = next /\ UNCHANGED <<outcome, exc>>

\* a plausible slip: the test of the target is left out
TargetNeverExists(f) == FALSE

\* os.path.exists(target) (line 82)
TargetExists(f) == Exists(f, TargetDir)

\* lines 80-84
CheckTarget ==
    /\ pc = "check"
    /\ IF TargetExists(fs) THEN Exit("target_exists", "check", TargetDir)
       ELSE Continue("mkroot")
    /\ UNCHANGED <<fs, fs0, pack, stages, pkgCount, files, chain, warned, copied,
                   fsCopied, extracted, lddCount, wdirs, wdirsTodo, runs, script>>

\* lines 86-91: load_config returns immutable lists, whose elements the
\* model draws where the code iterates over them
MakeRoot ==
    /\ pc = "mkroot"
    /\ LET r1 == OsMkdir(fs, TargetDir)
           r2 == OsMkdir(r1.fs, Root)
       IN IF r1.err THEN fs' = r1.fs /\ Exit("exception", "mkroot", TargetDir)
          ELSE IF r2.err THEN fs' = r2.fs /\ Exit("exception", "mkroot", Root)
          ELSE fs' = r2.fs /\ Continue(Order[1])
    /\ UNCHANGED <<fs0, pack, stages, pkgCount, files, chain, warned, copied,
                   fsCopied, extracted, lddCount, wdirs, wdirsTodo, runs, script>>

\* lines 94-103: the next package of the configuration; a package whose
\* files were packed is left out of packages_not_packed
NextPackage ==
    /\ pc = "copy" /\ files = <<>> /\ chain = <<>>
    /\ pkgCount < MaxPkgs
    /\ \E pkg \in Packages :
        /\ files' = IF pkg.packfiles THEN <<>> ELSE pkg.files
        /\ stages' = IF pkg.packfiles THEN stages ELSE Enter("copy")
    /\ pkgCount' = pkgCount + 1
    /\ UNCHANGED <<pc, fs, fs0, pack, outcome, exc, chain, warned, copied, fsCopied,
                   extracted, lddCount, wdirs, wdirsTodo, runs, script>>

\* the symlink chain being copied: find_all_links(ff.path) when a new file starts
CurChain ==
    IF chain # <<>> THEN chain
    ELSE IF files # <<>> THEN find_all_links(fs, Head(files))
    ELSE <<>>

\* lines 104-118, one path of the chain
CopyHostPath ==
    /\ pc = "copy" /\ CurChain # <<>>
    /\ LET path == Head(CurChain)
           r == CopyHostFile(fs, path)
       IN /\ fs' = r.fs
          /\ warned' = IF r.warn THEN warned \cup {path} ELSE warned
          /\ copied' = IF r.err THEN copied ELSE copied \cup {path}
          /\ IF r.err THEN Exit("exception", "copy", path) ELSE Continue("copy")
    /\ chain' = Tail(CurChain)
    /\ files' = IF chain # <<>> THEN files ELSE Tail(files)
    /\ UNCHANGED <<fs0, pack, stages, pkgCount, fsCopied, extracted, lddCount,
                   wdirs, wdirsTodo, runs, script>>

\* the loops of lines 102-104 end
EndCopy ==
    /\ pc = "copy" /\ files = <<>> /\ chain = <<>>
    /\ Continue(NextPc("copy"))
    /\ fsCopied' = fs
    /\ UNCHANGED <<fs, fs0, pack, stages, pkgCount, files, chain, warned, copied,
                   extracted, lddCount, wdirs, wdirsTodo, runs, script>>

\* lines 120-129
Untar ==
    /\ pc = "untar"
    /\ LET r == Unpack(fs, pack)
       IN /\ fs' = r.fs
          /\ extracted' = r.done
          /\ IF r.out = "ok" THEN Continue(NextPc("untar"))
             ELSE Exit(r.out, "untar", <<>>)
    /\ stages' = Enter("untar")
    /\ UNCHANGED <<fs0, pack, pkgCount, files, chain, warned, copied, fsCopied,
                   lddCount, wdirs, wdirsTodo, runs, script>>

\* lines 135-147: one line of the output of ldd /bin/sh; when the body
\* raises, p.wait() runs and the exception leaves create_chroot
LddLine ==
    /\ pc = "ldd" /\ lddCount < MaxLddLines
    /\ \E l \in LddOutput :
        LET r == CopyDependency(fs, l)
        IN /\ fs' = r.fs
           /\ IF r.err THEN Exit("exception", "ldd", l) ELSE Continue("ldd")
    /\ lddCount' = lddCount + 1
    /\ stages' = Enter("ldd")
    /\ UNCHANGED <<fs0, pack, pkgCount, files, chain, warned, copied, fsCopied,
                   extracted, wdirs, wdirsTodo, runs, script>>

\* lines 148-154: end of the output, exit status of ldd, /bin/sh
LddExit ==
    /\ pc = "ldd"
    /\ \E returncode \in {0, 1} :
        IF returncode # 0
        THEN fs' = fs /\ Exit("exception", "ldd", <<>>)
        ELSE LET r == CopyShell(fs)
             IN /\ fs' = r.fs
                /\ IF r.err THEN Exit("exception", "ldd", HostSh)
                   ELSE Continue(NextPc("ldd"))
    /\ stages' = Enter("ldd")
    /\ UNCHANGED <<fs0, pack, pkgCount, files, chain, warned, copied, fsCopied,
                   extracted, lddCount, wdirs, wdirsTodo, runs, script>>

\* list_directories (lines 27-54), called at line 159
ListDirectories ==
    /\ pc = "wdirs"
    /\ IF TraceMember \in Range(pack)
       THEN \E S \in WdirSets : wdirs' = S
       ELSE wdirs' = {}
    /\ wdirsTodo' = wdirs'
    /\ stages' = Enter("wdirs")
    /\ Continue("mkwdirs")
    /\ UNCHANGED <<fs, fs0, pack, pkgCount, files, chain, warned, copied, fsCopied,
                   extracted, lddCount, runs, script>>

\* lines 159-160, one directory of the set, in the order the set yields
MakeWorkdir ==
    /\ pc = "mkwdirs"
    /\ \E d \in wdirsTodo :
        /\ fs' = MakeWorkingDir(fs, d)
        /\ wdirsTodo' = wdirsTodo \ {d}
    /\ UNCHANGED <<pc, fs0, pack, outcome, exc, stages, pkgCount, files, chain, warned,
                   copied, fsCopied, extracted, lddCount, wdirs, runs, script>>

EndWdirs ==
    /\ pc = "mkwdirs" /\ wdirsTodo = {}
    /\ Continue(NextPc("wdirs"))
    /\ UNCHANGED <<fs, fs0, pack, stages, pkgCount, files, chain, warned, copied,
                   fsCopied, extracted, lddCount, wdirs, wdirsTodo, runs, script>>

\* lines 163-178
WriteScript ==
    /\ pc = "script"
    /\ \E rs \in RunLists :
        LET r == WriteFile(fs, ScriptPath, <<"#", "!">>)
        IN /\ fs' = r.fs
           /\ runs' = rs
           /\ script' = IF r.err THEN script ELSE [i \in 1..Len(rs) |-> ScriptLine(rs[i])]
           /\ IF r.err THEN Exit("exception", "script", ScriptPath)
              ELSE IF NextPc("script") = "done"
              THEN pc' = "done" /\ outcome' = "ok" /\ exc' = exc
              ELSE Continue(NextPc("script"))
    /\ stages' = Enter("script")
    /\ UNCHANGED <<fs0, pack, pkgCount, files, chain, warned, copied, fsCopied,
                   extracted, lddCount, wdirs, wdirsTodo>>

Next ==
    \/ CheckTarget
    \/ MakeRoot
    \/ NextPackage
    \/ CopyHostPath
    \/ EndCopy
    \/ Untar
    \/ LddLine
    \/ LddExit
    \/ ListDirectories
    \/ MakeWorkdir
    \/ EndWdirs
    \/ WriteScript

Spec == Init /\ [][Next]_vars

(* ------------------------------- claims -------------------------------- *)
\* a member name with a parent-directory segment
HasTraversal(name) == DotDot \in Range(SplitOn(name, "/"))
PackUnsafe == \E i \in 1..Len(pack) : HasTraversal(pack[i])
TargetWasAbsent == Node(fs0, TargetDir) = Absent
Position(order, b) == CHOOSE k \in 1..Len(order) : order[k] = b
StagesFollow(order) ==
    \A i, j \in 1..Len(stages) :
        i < j => Position(order, stages[i]) < Position(order, stages[j])
ScriptWritten == Node(fs, Norm(ScriptPath)).k = "file"

\* C1: a call on a free target with a pack that has a member name with a
\* parent-directory segment ends with the unsafe-archive error, and no member
\* of the archive has been extracted.
C1_UnsafePackRejected ==
    (PackUnsafe /\ TargetWasAbsent /\ pc = "done")
        => (outcome = "unsafe_archive" /\ extracted = <<>>)

\* C2 as stated: when validation fails, the filesystem is as it was before
\* the call.
C2_AbortBeforeAnyMutation == outcome = "unsafe_archive" => fs = fs0

\* C2 as amended: when validation fails, no member has been extracted and
\* the filesystem is as the host copier left it: the target directory and
\* root/ exist, and every host path the copier copied is under the root.
C2_AbortBeforeExtraction ==
    outcome = "unsafe_archive" =>
        /\ extracted = <<>>
        /\ fs = fsCopied
        /\ IsDir(fs, TargetDir) /\ IsDir(fs, Root)
        /\ fs # fs0
        /\ \A path \in copied : Node(fs, Norm(DestOf(path))).k \in {"file", "link"}

C2_Witness == outcome = "unsafe_archive" /\ copied # {} /\ Len(DataMembers(pack)) = 2

\* C3: the run is never aborted at a path that was reported missing on the
\* host.
C3_MissingHostFileNeverAborts ==
    ~(outcome = "exception" /\ exc.at = "copy" /\ exc.on \in warned)

\* C4: the run is never aborted at a host path that the copier has already
\* put under the root.
C4_SecondCopyNoError ==
    ~(outcome = "exception" /\ exc.at = "copy" /\ exc.on \in copied)

\* C5: the run is never aborted at a line of ldd that does not match the
\* pattern.
C5_UnmatchedLineIgnored ==
    ~(outcome = "exception" /\ exc.at = "ldd" /\ exc.on \in LddOutput
      /\ FmtMatch(exc.on) = NoMatch)

\* C6 as stated: the blocks start in the order extractor, host copier,
\* dependency resolver, working directories, script; nothing is copied from
\* the host before the archive is unpacked; script.sh is written last.
C6_ExtractorFirst ==
    /\ StagesFollow(<<"untar", "copy", "ldd", "wdirs", "script">>)
    /\ copied # {} => "untar" \in Range(stages)
    /\ ScriptWritten => pc = "done"

\* C6 as amended: the blocks start in the order host copier, extractor,
\* dependency resolver, working directories, script; nothing is extracted
\* while the host copier works; script.sh is written last.
C6_CopierFirst ==
    /\ StagesFollow(<<"copy", "untar", "ldd", "wdirs", "script">>)
    /\ pc = "copy" => ("untar" \notin Range(stages) /\ extracted = <<>>)
    /\ ScriptWritten => pc = "done"

C6_Witness ==
    /\ outcome = "ok"
    /\ stages = <<"copy", "untar", "ldd", "wdirs", "script">>
    /\ copied # {} /\ extracted # <<>>

\* C7: every path that differs from the filesystem before the call lies
\* under the root, except the target directory itself and script.sh.
C7_WritesStayUnderRoot ==
    \A p \in DOMAIN fs :
        Node(fs, p) # Node(fs0, p) => (Under(p, Root) \/ p \in {TargetDir, Norm(ScriptPath)})

\* C8: once the working directories have been made, every path that
\* list_directories returned is a directory under the root.
C8_WorkingDirsExist ==
    ("wdirs" \in Range(stages) /\ pc \in {"script", "done"})
        => \A d \in wdirs : IsDir(fs, Root \o d)

\* C9: when something is at the target path before the call, the filesystem
\* never changes, no block starts, and the run ends with an error; when
\* os.path.exists sees the target the run ends at the test of line 82.
C9_ExistingTargetUntouched ==
    ~TargetWasAbsent =>
        /\ fs = fs0
        /\ stages = <<>>
        /\ pc \in {"check", "mkroot", "done"}
        /\ pc = "done" => outcome \in {"target_exists", "exception"}
        /\ Exists(fs0, TargetDir) =>
               (pc \in {"check", "done"} /\ (pc = "done" => outcome = "target_exists"))

C9_Witness == pc = "done" /\ outcome = "target_exists" /\ IsDir(fs0, TargetDir)

\* C10: after a successful run script.sh holds one line per run, in order;
\* line i changes to run i's working directory, then executes run i's binary
\* followed by its recorded arguments from index 1 on, with run i's uid and
\* gid, each 1000 when the run has none.
C10_ScriptReplaysRuns ==
    outcome = "ok" =>
        /\ Len(script) = Len(runs)
        /\ \A i \in 1..Len(runs) :
            LET l == script[i]
                r == runs[i]
            IN /\ l.userspec[1] = (IF "uid" \in DOMAIN r THEN r.uid ELSE 1000)
               /\ l.userspec[2] = (IF "gid" \in DOMAIN r THEN r.gid ELSE 1000)
               /\ l.cmd[1] = [esc |-> FALSE, s |-> <<"c", "d">>]
               /\ l.cmd[2] = [esc |-> TRUE, s |-> r.workingdir]
               /\ l.cmd[3] = [esc |-> FALSE, s |-> <<"&", "&">>]
               /\ l.cmd[4] = [esc |-> TRUE, s |-> r.binary]
               /\ Len(l.cmd) = 4 + (IF Len(r.argv) > 0 THEN Len(r.argv) - 1 ELSE 0)
               /\ \A j \in 2..Len(r.argv) : l.cmd[3 + j] = [esc |-> TRUE, s |-> r.argv[j]]

C10_Witness ==
    /\ outcome = "ok" /\ Len(runs) = 2 /\ runs[1] # runs[2]
    /\ runs[1].argv[1] # runs[1].binary /\ Len(runs[1].argv) = 2

====
